---------------------------- MODULE Spec2Model ----------------------------
(***************************************************************************)
(* FastAppConf (src/main.py): a configuration object that builds a FastAPI *)
(* application, attaches a CORS middleware, mounts static directories and  *)
(* optionally replaces the Swagger UI renderer by one that uses offline    *)
(* assets.                                                                 *)
(*                                                                         *)
(* Python values are modelled as follows.  A str is a TLA+ string, a list  *)
(* is a sequence, an Optional value is None (the empty tuple) or Some(v)   *)
(* (a one-element tuple), an object with mutable fields is a record held   *)
(* in a variable.  A method is an operator from the object's record (and   *)
(* the process-wide state it reads) to a Result record carrying the        *)
(* updated object, the updated process-wide renderer and the exception     *)
(* that ended the call, if any.                                            *)
(***************************************************************************)
EXTENDS Naturals, Sequences, FiniteSets

VARIABLES
    confs,        \* the FastAppConf objects constructed so far: id -> fields
    patch,        \* fastapi.applications.get_swagger_ui_html (process-wide)
    asset_files,  \* the files present in the offline asset directory
    next_id,      \* identity of the next FastAPI instance to be created
    last          \* the most recent call: method, object, argument, outcome

vars == <<confs, patch, asset_files, next_id, last>>

(***************************************************************************)
(* Bounds of the model.                                                    *)
(***************************************************************************)
MaxDirs == 2      \* longest static_dirs list passed to the constructor
MaxApps == 2      \* FastAPI instances created in one behaviour
MaxRoutes == 3    \* mounts up to which direct calls may grow an instance
MaxMiddleware == 1 \* middleware up to which direct calls may grow one

(***************************************************************************)
(* Python values.                                                          *)
(***************************************************************************)
None == << >>
Some(v) == <<v>>

\* bool(x) of an Optional[str] or Optional[list]: None and the empty
\* string or list are falsy.
Truthy(o) == o # None /\ Len(o[1]) > 0

\* `x or []`
OrEmptyList(o) == IF Truthy(o) THEN o[1] ELSE << >>

Range(s) == {s[i] : i \in 1..Len(s)}

NoExc == "none"

\* s[i] of a str, 1-based
Char(s, i) == SubSeq(s, i, i)

\* s.startswith(p)
startswith(s, p) == Len(s) >= Len(p) /\ SubSeq(s, 1, Len(p)) = p

\* s.rfind("/") + 1: the 1-based position of the last separator, 0 if none
RECURSIVE rfind_sep(_, _)
rfind_sep(s, i) ==
    IF i = 0 THEN 0
    ELSE IF Char(s, i) = "/" THEN i
    ELSE rfind_sep(s, i - 1)

\* os.path.basename(p): everything after the last separator
basename(p) == SubSeq(p, rfind_sep(p, Len(p)) + 1, Len(p))

\* s.rstrip("/")
RECURSIVE rstrip_sep(_)
rstrip_sep(s) ==
    IF Len(s) > 0 /\ Char(s, Len(s)) = "/"
    THEN rstrip_sep(SubSeq(s, 1, Len(s) - 1))
    ELSE s

\* os.path.join(a, b) for a relative b
join(a, b) ==
    IF a = "" \/ Char(a, Len(a)) = "/" THEN a \o b ELSE a \o "/" \o b


(***************************************************************************)
(* The environment: the directories that exist on disk and the location of *)
(* the fastapi_offline_swagger_ui package.                                 *)
(***************************************************************************)
DirsOnDisk == {"/srv/public", "/opt/public", "/srv/assets"}

\* fastapi_offline_swagger_ui.__path__[0]
asset_path == "/site-packages/fastapi_offline_swagger_ui"

AssetFileNames == {"swagger-ui.css", "swagger-ui-bundle.js"}

\* os.path.isdir(p): a trailing separator names the same directory
isdir(p) == rstrip_sep(p) \in DirsOnDisk \cup {asset_path}

\* os.path.exists(p) for a file of the offline asset directory
exists(p, files) == \E f \in files : p = join(asset_path, f)

(***************************************************************************)
(* The framework objects the configuration object builds and mutates.      *)
(***************************************************************************)
\* FastAPI(title=..., version=..., root_path=..., openapi_url=...,
\*         docs_url=..., lifespan=...): a fresh instance without user
\* middleware and without mounts.  routes holds the mounts only: the
\* exact-path routes the framework registers itself (openapi, docs, redoc)
\* match none of the requests considered here.
FastAPI(id, title, version, root_path, openapi_url, docs_url, lifespan) ==
    [id |-> id, title |-> title, version |-> version,
     root_path |-> root_path, openapi_url |-> openapi_url,
     docs_url |-> docs_url, lifespan |-> lifespan,
     user_middleware |-> << >>, routes |-> << >>]

\* CORSMiddleware with the keyword arguments of configure_cors
CORSMiddleware(allow_origins) ==
    [cls |-> "CORSMiddleware", allow_origins |-> allow_origins,
     allow_credentials |-> TRUE,
     allow_methods |-> <<"*">>, allow_headers |-> <<"*">>]

\* app.add_middleware(cls, **options): the new middleware becomes the
\* outermost one
add_middleware(app, mw) ==
    [app EXCEPT !.user_middleware = <<mw>> \o @]

\* a static-file server that validates its directory only when serving
StaticFilesUnchecked(d) == FALSE

\* StaticFiles(directory=d) with the default check_dir: the constructor
\* raises RuntimeError when d is not a directory
StaticFilesRaises(d) == ~isdir(d)

StaticFiles(d) == [directory |-> d]

\* Mount(path, app, name) asserts that a routed path is empty or starts
\* with "/"
MountRaises(path) == ~(path = "" \/ startswith(path, "/"))

\* app.mount(path, sub, name): appends Mount(path.rstrip("/"), sub, name)
\* to the application's routes
mount(app, path, sub, name) ==
    [app EXCEPT !.routes =
        Append(@, [path |-> rstrip_sep(path), app |-> sub, name |-> name])]

\* Mount.matches: the request path continues the mount path with "/"
matches(route, request) ==
    startswith(request, route.path \o "/")

\* Router: routes are tried in the order they were added and the first
\* full match handles the request; 0 when no mount matches
RECURSIVE first_match(_, _, _)
first_match(routes, request, i) ==
    IF i > Len(routes) THEN 0
    ELSE IF matches(routes[i], request) THEN i
    ELSE first_match(routes, request, i + 1)

RECURSIVE last_match(_, _, _)
last_match(routes, request, i) ==
    IF i = 0 THEN 0
    ELSE IF matches(routes[i], request) THEN i
    ELSE last_match(routes, request, i - 1)

\* a router in which the mount added last wins
route_of_last(routes, request) == last_match(routes, request, Len(routes))

\* the index of the mount that serves `request`
route_of(routes, request) == first_match(routes, request, 1)

\* the file a request is served from: the rest of the request path looked
\* up in the directory of the mount that matched; None when no mount does
resolve(app, request) ==
    LET i == route_of(app.routes, request)
    IN IF i = 0 THEN None
       ELSE LET r == app.routes[i]
                rest == SubSeq(request, Len(r.path) + 2, Len(request))
            IN Some(join(r.app.directory, rest))

\* CORSMiddleware.is_allowed_origin: "*" among allow_origins allows all
is_allowed_origin(mw, origin) ==
    \/ "*" \in Range(mw.allow_origins)
    \/ origin \in Range(mw.allow_origins)

(***************************************************************************)
(* FastAppConf.                                                            *)
(***************************************************************************)
\* __init__: the fields of a new object
FastAppConf(kw) ==
    [title |-> kw.title, version |-> kw.version,
     openapi_prefix |-> kw.openapi_prefix, openapi_url |-> kw.openapi_url,
     assets_url |-> kw.assets_url, docs_url |-> kw.docs_url,
     swagger_css_url |-> kw.swagger_css_url,
     swagger_js_url |-> kw.swagger_js_url,
     swagger_favicon_url |-> kw.swagger_favicon_url,
     origins |-> OrEmptyList(kw.origins),
     static_dirs |-> OrEmptyList(kw.static_dirs),
     app |-> None]

\* the outcome of a method call
Result(self, p, exc, calls) ==
    [self |-> self, patch |-> p, exc |-> exc, calls |-> calls]

\* self.app.<method>(...) on an object whose app is None
NoApp(self) == self.app = None

\* configure_cors falling back to the wildcard when no origin is configured
configure_cors_wildcard(self, p) ==
    IF NoApp(self) THEN Result(self, p, "AttributeError", <<"configure_cors">>)
    ELSE Result(
        [self EXCEPT !.app =
            Some(add_middleware(self.app[1],
                CORSMiddleware(IF self.origins = << >> THEN <<"*">>
                               ELSE self.origins)))],
        p, NoExc, <<"configure_cors">>)

configure_cors(self, p) ==
    IF NoApp(self) THEN Result(self, p, "AttributeError", <<"configure_cors">>)
    ELSE Result(
        [self EXCEPT !.app =
            Some(add_middleware(self.app[1], CORSMiddleware(self.origins)))],
        p, NoExc, <<"configure_cors">>)

\* the loop of mount_static_dirs from the i-th directory on
RECURSIVE mount_static_dirs_from(_, _, _)
mount_static_dirs_from(self, p, i) ==
    IF i > Len(self.static_dirs)
    THEN Result(self, p, NoExc, <<"mount_static_dirs">>)
    ELSE LET static_dir == self.static_dirs[i]
         IN IF NoApp(self)
            THEN Result(self, p, "AttributeError", <<"mount_static_dirs">>)
            ELSE IF StaticFilesRaises(static_dir)
            THEN Result(self, p, "RuntimeError", <<"mount_static_dirs">>)
            ELSE mount_static_dirs_from(
                    [self EXCEPT !.app =
                        Some(mount(self.app[1], "/" \o basename(static_dir),
                                   StaticFiles(static_dir), "static"))],
                    p, i + 1)

mount_static_dirs(self, p) == mount_static_dirs_from(self, p, 1)

\* the condition with the existence of the JS bundle left unchecked
swagger_enabled_css_only(self, files) ==
    /\ Truthy(self.assets_url)
    /\ Truthy(self.swagger_css_url)
    /\ Truthy(self.swagger_js_url)
    /\ Truthy(self.swagger_favicon_url)
    /\ exists(join(asset_path, "swagger-ui.css"), files)

\* the condition with any() in place of all(), assets_url still required
swagger_enabled_any(self, files) ==
    /\ Truthy(self.assets_url)
    /\ \/ Truthy(self.swagger_css_url)
       \/ Truthy(self.swagger_js_url)
       \/ Truthy(self.swagger_favicon_url)
    /\ exists(join(asset_path, "swagger-ui.css"), files)
    /\ exists(join(asset_path, "swagger-ui-bundle.js"), files)

\* the condition under which configure_swagger_ui goes on to mount and patch
swagger_enabled(self, files) ==
    /\ Truthy(self.assets_url)
    /\ Truthy(self.swagger_css_url)
    /\ Truthy(self.swagger_js_url)
    /\ Truthy(self.swagger_favicon_url)
    /\ exists(join(asset_path, "swagger-ui.css"), files)
    /\ exists(join(asset_path, "swagger-ui-bundle.js"), files)

\* `me` is the identity of self: the patch installed is the bound method
\* self._swagger_monkey_patch
configure_swagger_ui(me, self, p, files) ==
    IF ~swagger_enabled(self, files)
    THEN Result(self, p, NoExc, <<"configure_swagger_ui">>)
    ELSE IF NoApp(self)
    THEN Result(self, p, "AttributeError", <<"configure_swagger_ui">>)
    ELSE IF MountRaises(self.assets_url[1])
    THEN Result(self, p, "AssertionError", <<"configure_swagger_ui">>)
    ELSE Result(
        [self EXCEPT !.app =
            Some(mount(self.app[1], self.assets_url[1],
                       StaticFiles(asset_path), "assets"))],
        me, NoExc, <<"configure_swagger_ui">>)

\* r, then the next call unless r raised
Then(r, nxt) ==
    IF r.exc # NoExc THEN r
    ELSE [nxt EXCEPT !.calls = r.calls \o @]

\* setup substituting the documentation assets before mounting the
\* static directories
setup_swagger_first(me, self, p, files, lifespan, id) ==
    LET s0 == [self EXCEPT !.app =
                  Some(FastAPI(id, self.title, self.version,
                               self.openapi_prefix, self.openapi_url,
                               self.docs_url, lifespan))]
        r1 == configure_cors(s0, p)
        r2 == Then(r1, configure_swagger_ui(me, r1.self, r1.patch, files))
        r3 == Then(r2, mount_static_dirs(r2.self, r2.patch))
    IN r3

\* setup keeping the instance of an earlier call instead of creating one
setup_reusing_app(me, self, p, files, lifespan, id) ==
    LET s0 == IF self.app # None THEN self
              ELSE [self EXCEPT !.app =
                  Some(FastAPI(id, self.title, self.version,
                               self.openapi_prefix, self.openapi_url,
                               self.docs_url, lifespan))]
        r1 == configure_cors(s0, p)
        r2 == Then(r1, mount_static_dirs(r1.self, r1.patch))
        r3 == Then(r2, configure_swagger_ui(me, r2.self, r2.patch, files))
    IN r3

setup(me, self, p, files, lifespan, id) ==
    LET s0 == [self EXCEPT !.app =
                  Some(FastAPI(id, self.title, self.version,
                               self.openapi_prefix, self.openapi_url,
                               self.docs_url, lifespan))]
        r1 == configure_cors(s0, p)
        r2 == Then(r1, mount_static_dirs(r1.self, r1.patch))
        r3 == Then(r2, configure_swagger_ui(me, r2.self, r2.patch, files))
    IN r3

\* fastapi.openapi.docs.get_swagger_ui_html: the defaults of the framework
DefaultRenderer == "get_swagger_ui_html"

DefaultDocsAssets ==
    [swagger_css_url |-> "https://cdn.jsdelivr.net/npm/swagger-ui-dist@5/swagger-ui.css",
     swagger_js_url |-> "https://cdn.jsdelivr.net/npm/swagger-ui-dist@5/swagger-ui-bundle.js",
     swagger_favicon_url |-> "https://fastapi.tiangolo.com/img/favicon.png"]

\* a patch that does not pass the CSS URL on
_swagger_monkey_patch_without_css(self) ==
    [swagger_css_url |-> DefaultDocsAssets.swagger_css_url,
     swagger_js_url |-> self.swagger_js_url[1],
     swagger_favicon_url |-> self.swagger_favicon_url[1]]

\* self._swagger_monkey_patch(...): the keyword arguments it passes on
_swagger_monkey_patch(self) ==
    [swagger_css_url |-> self.swagger_css_url[1],
     swagger_js_url |-> self.swagger_js_url[1],
     swagger_favicon_url |-> self.swagger_favicon_url[1]]

\* what a documentation page rendered now references: every application's
\* docs route calls applications.get_swagger_ui_html at request time
docs_page(cs, p) ==
    IF p = DefaultRenderer THEN DefaultDocsAssets
    ELSE _swagger_monkey_patch(cs[p])

(***************************************************************************)
(* The arguments the constructor and setup are called with.                *)
(***************************************************************************)
Objects == {"A", "B"}

NoKw ==
    [title |-> None, version |-> None, openapi_prefix |-> None,
     openapi_url |-> None, assets_url |-> None, docs_url |-> None,
     swagger_css_url |-> None, swagger_js_url |-> None,
     swagger_favicon_url |-> None, origins |-> None, static_dirs |-> None]

\* title, version, openapi_prefix, openapi_url and docs_url given
IdentityKw ==
    [NoKw EXCEPT !.title = Some("My API"), !.version = Some("1.0"),
                 !.openapi_prefix = Some("/api"),
                 !.openapi_url = Some("/openapi.json"),
                 !.docs_url = Some("/docs")]

\* the four documentation-asset arguments given
SwaggerKw(kw, assets, css, js, favicon) ==
    [kw EXCEPT !.assets_url = assets, !.swagger_css_url = css,
               !.swagger_js_url = js, !.swagger_favicon_url = favicon]

OfflineKw(kw) ==
    SwaggerKw(kw, Some("/assets"), Some("/assets/swagger-ui.css"),
              Some("/assets/swagger-ui-bundle.js"),
              Some("/assets/favicon.png"))

\* every combination of absent and given documentation-asset arguments,
\* each argument once as the empty string, an assets URL without a
\* leading "/", and a second complete set
SwaggerKws ==
    {SwaggerKw(NoKw, a, c, j, f) :
        a \in {None, Some("/assets")},
        c \in {None, Some("/assets/swagger-ui.css")},
        j \in {None, Some("/assets/swagger-ui-bundle.js")},
        f \in {None, Some("/assets/favicon.png")}}
    \cup {[OfflineKw(NoKw) EXCEPT !.assets_url = Some("")],
          [OfflineKw(NoKw) EXCEPT !.swagger_css_url = Some("")],
          [OfflineKw(NoKw) EXCEPT !.swagger_js_url = Some("")],
          [OfflineKw(NoKw) EXCEPT !.swagger_favicon_url = Some("")],
          [OfflineKw(NoKw) EXCEPT !.assets_url = Some("assets")],
          SwaggerKw(NoKw, Some("/offline/"), Some("/offline/ui.css"),
                    Some("/offline/ui.js"), Some("/offline/icon.png"))}

StaticPaths ==
    {"/srv/public", "/srv/public/", "/opt/public", "/srv/assets",
     "/srv/missing"}

RECURSIVE ListsUpTo(_, _)
ListsUpTo(S, n) ==
    IF n = 0 THEN {<< >>}
    ELSE LET shorter == ListsUpTo(S, n - 1)
         IN shorter \cup {Append(l, x) : l \in shorter, x \in S}

\* static_dirs absent or a list of at most MaxDirs paths, with and without
\* the documentation-asset arguments
StaticKws ==
    {[kw EXCEPT !.static_dirs = d] :
        kw \in {NoKw, OfflineKw(IdentityKw)},
        d \in {None} \cup {Some(l) : l \in ListsUpTo(StaticPaths, MaxDirs)}}

OriginLists ==
    {<< >>, <<"https://allowed.example">>,
     <<"https://allowed.example", "https://other.example">>, <<"*">>}

RequestOrigins ==
    {"https://allowed.example", "https://other.example",
     "https://evil.example"}

OriginKws ==
    {[NoKw EXCEPT !.origins = o] :
        o \in {None} \cup {Some(l) : l \in OriginLists}}

\* the lifespan argument of setup
Lifespans == {None, Some("lifespan")}

(***************************************************************************)
(* The state machine: the calls a host program can make, in any order.     *)
(***************************************************************************)
\* arg: the keyword arguments of __init__, the lifespan of setup;
\* exc: the exception raised; ret: the identity of the instance returned;
\* calls: the methods of the object entered, in order
Call(method, obj, arg, exc, ret, calls) ==
    [method |-> method, obj |-> obj, arg |-> arg, exc |-> exc, ret |-> ret,
     calls |-> calls]

Init ==
    /\ confs = << >>
    /\ patch = DefaultRenderer
    /\ asset_files = AssetFileNames
    /\ next_id = 1
    /\ last = Call("none", "none", None, NoExc, None, << >>)

\* c = FastAppConf(**kw)
New(c, kw) ==
    /\ c \notin DOMAIN confs
    /\ confs' = [x \in DOMAIN confs \cup {c} |->
                    IF x = c THEN FastAppConf(kw) ELSE confs[x]]
    /\ last' = Call("__init__", c, kw, NoExc, None, << >>)
    /\ UNCHANGED <<patch, asset_files, next_id>>

\* the state after a method of c ended with result r
Commit(c, r, method, arg, ret) ==
    /\ confs' = [confs EXCEPT ![c] = r.self]
    /\ patch' = r.patch
    /\ last' = Call(method, c, arg, r.exc, ret, r.calls)
    /\ UNCHANGED asset_files

\* c.setup(lifespan)
Setup(c, lifespan) ==
    /\ c \in DOMAIN confs
    /\ next_id <= MaxApps
    /\ LET r == setup(c, confs[c], patch, asset_files, lifespan, next_id)
       IN Commit(c, r, "setup", lifespan,
                 IF r.exc = NoExc THEN Some(r.self.app[1].id) ELSE None)
    /\ next_id' = next_id + 1

\* c.configure_cors()
ConfigureCors(c) ==
    /\ c \in DOMAIN confs
    /\ IF NoApp(confs[c]) THEN TRUE
       ELSE Len(confs[c].app[1].user_middleware) < MaxMiddleware
    /\ Commit(c, configure_cors(confs[c], patch), "configure_cors", None, None)
    /\ UNCHANGED next_id

\* c.mount_static_dirs()
MountStaticDirs(c) ==
    /\ c \in DOMAIN confs
    /\ IF NoApp(confs[c]) THEN TRUE
       ELSE Len(confs[c].app[1].routes) + Len(confs[c].static_dirs) <= MaxRoutes
    /\ Commit(c, mount_static_dirs(confs[c], patch), "mount_static_dirs",
              None, None)
    /\ UNCHANGED next_id

\* c.configure_swagger_ui()
ConfigureSwaggerUi(c) ==
    /\ c \in DOMAIN confs
    /\ IF NoApp(confs[c]) THEN TRUE
       ELSE Len(confs[c].app[1].routes) < MaxRoutes
    /\ Commit(c, configure_swagger_ui(c, confs[c], patch, asset_files),
              "configure_swagger_ui", None, None)
    /\ UNCHANGED next_id

\* a file of the offline asset directory appears or disappears
ChangeAssetFiles(f) ==
    /\ asset_files' = IF f \in asset_files THEN asset_files \ {f}
                      ELSE asset_files \cup {f}
    /\ last' = Call("filesystem", "none", None, NoExc, None, << >>)
    /\ UNCHANGED <<confs, patch, next_id>>

NextOf(objs, kws) ==
    \/ \E c \in objs, kw \in kws : New(c, kw)
    \/ \E c \in objs, lifespan \in Lifespans : Setup(c, lifespan)
    \/ \E c \in objs : ConfigureCors(c)
    \/ \E c \in objs : MountStaticDirs(c)
    \/ \E c \in objs : ConfigureSwaggerUi(c)
    \/ \E f \in AssetFileNames : ChangeAssetFiles(f)

\* one configuration object, every family of arguments
Next == NextOf({"A"}, SwaggerKws \cup StaticKws \cup OriginKws)

Spec == Init /\ [][Next]_vars

\* two configuration objects in one process
ProcessKws ==
    {OfflineKw(NoKw),
     [OfflineKw(NoKw) EXCEPT !.swagger_css_url = None],
     SwaggerKw(NoKw, Some("/offline/"), Some("/offline/ui.css"),
               Some("/offline/ui.js"), Some("/offline/icon.png"))}

NextProcess == NextOf(Objects, ProcessKws)

SpecProcess == Init /\ [][NextProcess]_vars

(***************************************************************************)
(* Vocabulary of the properties.  The conditions are written out here      *)
(* rather than taken from the operators above, so that a property compares *)
(* what the methods did with what they are said to do.                     *)
(***************************************************************************)
\* the object and the instance the most recent call was made on
LastSelf == confs[last.obj]
LastApp == LastSelf.app[1]

SetupCalled == last.method = "setup"
SetupReturned == last.method = "setup" /\ last.exc = NoExc

NonEmpty(o) == o # None /\ o # Some("")

AllFourGiven(self) ==
    /\ NonEmpty(self.assets_url)
    /\ NonEmpty(self.swagger_css_url)
    /\ NonEmpty(self.swagger_js_url)
    /\ NonEmpty(self.swagger_favicon_url)

BothFilesPresent(files) ==
    "swagger-ui.css" \in files /\ "swagger-ui-bundle.js" \in files

\* the framework accepts u as the path of a mount
MountAccepts(u) == Len(u) > 0 /\ Char(u, 1) = "/"

CountNamed(app, name) ==
    Cardinality({i \in 1..Len(app.routes) : app.routes[i].name = name})

\* the mount configure_swagger_ui adds for an assets URL u
AssetsMount(u) ==
    [path |-> rstrip_sep(u), app |-> [directory |-> asset_path],
     name |-> "assets"]

IsPrefix(a, b) == Len(a) <= Len(b) /\ a = SubSeq(b, 1, Len(a))

ThreeSteps == <<"configure_cors", "mount_static_dirs", "configure_swagger_ui">>

\* the directory does not exist on disk
Missing(d) == rstrip_sep(d) \notin DirsOnDisk

SomeMissing(dirs) == \E i \in 1..Len(dirs) : Missing(dirs[i])

FirstMissing(dirs) ==
    CHOOSE k \in 1..Len(dirs) :
        Missing(dirs[k]) /\ \A j \in 1..(k - 1) : ~Missing(dirs[j])

\* a directory's own name: its final segment, a trailing separator ignored
OwnName(d) == basename(rstrip_sep(d))

\* the request for `file` under the mount path "/" + name
RequestUnder(name, file) == rstrip_sep("/" \o name) \o "/" \o file

\* the first directory of the list whose base name is b
FirstNamed(dirs, b) ==
    CHOOSE k \in 1..Len(dirs) :
        basename(dirs[k]) = b /\ \A j \in 1..(k - 1) : basename(dirs[j]) # b

(***************************************************************************)
(* C7: setup builds the application from the object's title, version,      *)
(* openapi prefix, openapi URL, docs URL and the lifespan it was given,    *)
(* then runs configure_cors, mount_static_dirs and configure_swagger_ui in *)
(* this order, so every static mount precedes the assets mount; the value  *)
(* returned is the instance stored in the app field.                       *)
(***************************************************************************)
C7_SetupBuildsInOrder ==
    SetupCalled =>
        /\ IsPrefix(last.calls, ThreeSteps)
        /\ last.exc = NoExc =>
            /\ last.calls = ThreeSteps
            /\ LastApp.title = LastSelf.title
            /\ LastApp.version = LastSelf.version
            /\ LastApp.root_path = LastSelf.openapi_prefix
            /\ LastApp.openapi_url = LastSelf.openapi_url
            /\ LastApp.docs_url = LastSelf.docs_url
            /\ LastApp.lifespan = last.arg
            /\ Len(LastApp.user_middleware) = 1
            /\ \A i, j \in 1..Len(LastApp.routes) :
                  (LastApp.routes[i].name = "static"
                   /\ LastApp.routes[j].name = "assets") => i < j
            /\ last.ret = Some(LastApp.id)

C7_Witness ==
    /\ SetupReturned
    /\ LastApp.title = Some("My API")
    /\ LastApp.lifespan = Some("lifespan")
    /\ CountNamed(LastApp, "static") = 2
    /\ CountNamed(LastApp, "assets") = 1

(***************************************************************************)
(* C5 as stated: when a configured static directory does not exist on      *)
(* disk, mount_static_dirs and setup still complete without raising.       *)
(***************************************************************************)
MountingRan ==
    \/ SetupCalled
    \/ last.method = "mount_static_dirs" /\ LastSelf.app # None

BothMounted(i, j) ==
    /\ LastApp.routes[i].app.directory = LastSelf.static_dirs[i]
    /\ LastApp.routes[j].app.directory = LastSelf.static_dirs[j]

C6_Original ==
    SetupReturned =>
        \A i, j \in 1..Len(LastSelf.static_dirs) :
            (i < j /\ basename(LastSelf.static_dirs[i])
                        = basename(LastSelf.static_dirs[j])) =>
                /\ BothMounted(i, j)
                /\ resolve(LastApp,
                       RequestUnder(basename(LastSelf.static_dirs[j]),
                                    "index.html"))
                   = Some(join(LastSelf.static_dirs[j], "index.html"))

(***************************************************************************)
(* C6 amended: when two static directories share their final segment,      *)
(* both are mounted in order and the earlier mount keeps precedence: a     *)
(* request to /<name>/<file> is served from the first directory of         *)
(* static_dirs with that final segment (provided no directory listed       *)
(* before it has an empty final segment, whose mount at the root would     *)
(* match first); the shared name raises no error at setup.                 *)
(***************************************************************************)
C6_FirstMountWins ==
    SetupReturned =>
        \A i, j \in 1..Len(LastSelf.static_dirs) :
            (i < j /\ basename(LastSelf.static_dirs[i])
                        = basename(LastSelf.static_dirs[j])) =>
                LET b == basename(LastSelf.static_dirs[i])
                    k == FirstNamed(LastSelf.static_dirs, b)
                IN /\ BothMounted(i, j)
                   /\ (\A m \in 1..(k - 1) :
                          basename(LastSelf.static_dirs[m]) # "") =>
                        resolve(LastApp, RequestUnder(b, "index.html"))
                        = Some(join(LastSelf.static_dirs[k], "index.html"))

C6_Witness ==
    /\ SetupReturned
    /\ LastSelf.static_dirs = <<"/srv/public", "/opt/public">>
    /\ resolve(LastApp, "/public/index.html") = Some("/srv/public/index.html")

(***************************************************************************)
(* C4 as stated: the middleware setup attaches allows exactly the          *)
(* configured origins, with credentials, all methods and all headers: an   *)
(* Origin in the list is accepted, an Origin not in the list is rejected,  *)
(* and an empty or omitted list allows no origin.                          *)
(***************************************************************************)
ConstructorKeepsOrigins ==
    last.method = "__init__" =>
        /\ last.arg.origins \in {None, Some(<< >>)} => LastSelf.origins = << >>
        /\ last.arg.origins \notin {None, Some(<< >>)} =>
              LastSelf.origins = last.arg.origins[1]

PolicyAttached ==
    SetupReturned =>
        LET mw == LastApp.user_middleware[1]
        IN /\ mw.cls = "CORSMiddleware"
           /\ mw.allow_origins = LastSelf.origins
           /\ mw.allow_credentials
           /\ mw.allow_methods = <<"*">>
           /\ mw.allow_headers = <<"*">>

C4_Original ==
    /\ ConstructorKeepsOrigins
    /\ PolicyAttached
    /\ SetupReturned =>
          \A o \in RequestOrigins :
              is_allowed_origin(LastApp.user_middleware[1], o)
              <=> o \in Range(LastSelf.origins)

(***************************************************************************)
(* C4 amended: the middleware setup attaches carries exactly the           *)
(* configured origins, with credentials, all methods and all headers: an   *)
(* Origin in the list is accepted; an Origin not in the list is rejected   *)
(* unless the list contains "*", which allows every origin; an empty or    *)
(* omitted list allows no origin.                                          *)
(***************************************************************************)
C4_OriginsPolicy ==
    /\ ConstructorKeepsOrigins
    /\ PolicyAttached
    /\ SetupReturned =>
          \A o \in RequestOrigins :
              is_allowed_origin(LastApp.user_middleware[1], o)
              <=> (o \in Range(LastSelf.origins)
                   \/ "*" \in Range(LastSelf.origins))
    /\ (SetupReturned /\ LastSelf.origins = << >>) =>
          \A o \in RequestOrigins :
              ~is_allowed_origin(LastApp.user_middleware[1], o)

C4_Witness ==
    /\ SetupReturned
    /\ LastSelf.origins = <<"https://allowed.example">>
    /\ is_allowed_origin(LastApp.user_middleware[1], "https://allowed.example")
    /\ ~is_allowed_origin(LastApp.user_middleware[1], "https://evil.example")

(***************************************************************************)
(* C3 as stated: for every configured static directory mount_static_dirs   *)
(* adds exactly one mount at "/" followed by the directory's own name,     *)
(* serving that directory, in the order supplied; when the base names are  *)
(* distinct a request to /<name>/<file> resolves to <directory>/<file>.    *)
(***************************************************************************)
DistinctNames(dirs) ==
    \A i, j \in 1..Len(dirs) : i # j => OwnName(dirs[i]) # OwnName(dirs[j])

C3_Claim ==
    SetupReturned =>
        LET dirs == LastSelf.static_dirs
        IN /\ CountNamed(LastApp, "static") = Len(dirs)
           /\ \A i \in 1..Len(dirs) :
                 /\ LastApp.routes[i].name = "static"
                 /\ LastApp.routes[i].path = "/" \o OwnName(dirs[i])
                 /\ LastApp.routes[i].app.directory = dirs[i]
           /\ DistinctNames(dirs) =>
                 \A i \in 1..Len(dirs) :
                     resolve(LastApp, "/" \o OwnName(dirs[i]) \o "/index.html")
                     = Some(join(dirs[i], "index.html"))

(***************************************************************************)
(* C9 as stated: whenever the substitution succeeds, requests under the    *)
(* assets URL are served from the offline asset directory, whatever the    *)
(* static directories mounted earlier in the same setup.                   *)
(***************************************************************************)
C9_Claim ==
    (SetupReturned /\ CountNamed(LastApp, "assets") = 1) =>
        \A f \in AssetFileNames :
            resolve(LastApp, rstrip_sep(LastSelf.assets_url[1]) \o "/" \o f)
            = Some(join(asset_path, f))

(***************************************************************************)
(* C10 as stated: after a setup call the app field holds the instance      *)
(* that call returned, freshly created, with exactly one middleware,       *)
(* len(static_dirs) static mounts and one assets mount iff the             *)
(* substitution succeeded; before the first setup the app field is absent  *)
(* and configure_cors, mount_static_dirs and a passing                     *)
(* configure_swagger_ui fail rather than act.                              *)
(***************************************************************************)
SubstitutionSucceeded ==
    /\ last.exc = NoExc
    /\ AllFourGiven(LastSelf)
    /\ BothFilesPresent(asset_files)

AbsentBeforeFirstSetup ==
    next_id = 1 => \A c \in DOMAIN confs : confs[c].app = None

FreshInstance ==
    /\ LastSelf.app # None
    /\ LastApp.id = next_id - 1
    /\ Len(LastApp.user_middleware) = 1

SwaggerCallStep == last'.method = "configure_swagger_ui"

\* the step mounted the offline assets on the object's instance and
\* installed the object's renderer
MountedAndPatched(c) ==
    /\ confs[c].app # None
    /\ confs'[c] =
          [confs[c] EXCEPT !.app =
              Some([confs[c].app[1] EXCEPT !.routes =
                  Append(@, AssetsMount(confs[c].assets_url[1]))])]
    /\ patch' = c

NothingChanged == confs' = confs /\ patch' = patch

C1_Original ==
    [][SwaggerCallStep =>
        LET c == last'.obj
        IN IF AllFourGiven(confs[c]) /\ BothFilesPresent(asset_files)
           THEN MountedAndPatched(c)
           ELSE NothingChanged /\ last'.exc = NoExc]_vars

(***************************************************************************)
(* C1 amended: a call to configure_swagger_ui mounts the offline asset     *)
(* directory at assets_url and substitutes the renderer if and only if the *)
(* four asset fields are non-empty, both files exist at that moment, the   *)
(* application instance exists (setup has run) and the framework accepts   *)
(* assets_url as a mount path (it starts with "/"); with the fields        *)
(* non-empty and the files present but no instance or an unacceptable      *)
(* assets_url the call raises and changes nothing; if a field is empty or  *)
(* a file is missing the call changes nothing and raises no error.  The    *)
(* same holds of the call setup makes.                                     *)
(***************************************************************************)
C1_SubstitutionIff ==
    [][/\ SwaggerCallStep =>
            LET c == last'.obj
                wanted == AllFourGiven(confs[c]) /\ BothFilesPresent(asset_files)
            IN IF wanted /\ confs[c].app # None
                  /\ MountAccepts(confs[c].assets_url[1])
               THEN MountedAndPatched(c) /\ last'.exc = NoExc
               ELSE NothingChanged /\ (last'.exc = NoExc <=> ~wanted)
       /\ (last'.method = "setup"
           /\ "configure_swagger_ui" \in Range(last'.calls)) =>
            LET c == last'.obj
                app == confs'[c].app[1]
                wanted == AllFourGiven(confs[c]) /\ BothFilesPresent(asset_files)
            IN IF wanted /\ MountAccepts(confs[c].assets_url[1])
               THEN /\ app.routes[Len(app.routes)]
                       = AssetsMount(confs[c].assets_url[1])
                    /\ CountNamed(app, "assets") = 1
                    /\ patch' = c
                    /\ last'.exc = NoExc
               ELSE /\ CountNamed(app, "assets") = 0
                    /\ patch' = patch
                    /\ (last'.exc = NoExc <=> ~wanted)]_vars

C1_Witness ==
    /\ last.method = "configure_swagger_ui"
    /\ last.exc = NoExc
    /\ patch = last.obj
    /\ LastApp.id = 1
    /\ LastApp.routes = <<AssetsMount("/assets")>>

(***************************************************************************)
(* C2 as stated: when any of the four asset fields is empty or absent,     *)
(* after setup the renderer is unmodified and is still the framework       *)
(* default, so the documentation page references the default assets.       *)
(***************************************************************************)
C2_Original ==
    (SetupCalled /\ ~AllFourGiven(LastSelf)) =>
        /\ patch = DefaultRenderer
        /\ docs_page(confs, patch) = DefaultDocsAssets

(***************************************************************************)
(* C2 amended: when any of the four asset fields is empty or absent,       *)
(* setup (and a direct configure_swagger_ui) leaves the renderer as it     *)
(* found it and adds no assets mount: the documentation page references    *)
(* the default assets unless another configuration object substituted the  *)
(* renderer earlier in the process, in which case it keeps referencing     *)
(* that object's URLs.                                                     *)
(***************************************************************************)
C2_EmptyFieldLeavesRenderer ==
    [][(last'.method \in {"setup", "configure_swagger_ui"}
        /\ ~AllFourGiven(confs'[last'.obj])) =>
            /\ patch' = patch
            /\ confs'[last'.obj].app # None =>
                  CountNamed(confs'[last'.obj].app[1], "assets") = 0
            /\ docs_page(confs', patch') = docs_page(confs, patch)
            /\ patch = DefaultRenderer =>
                  docs_page(confs', patch') = DefaultDocsAssets]_vars

C2_Witness ==
    /\ SetupReturned
    /\ ~AllFourGiven(LastSelf)
    /\ patch \notin {DefaultRenderer, last.obj}
    /\ docs_page(confs, patch) # DefaultDocsAssets

(***************************************************************************)
(* C8 as stated: once an object has substituted the renderer, every later  *)
(* documentation page in the process references that object's CSS, JS and  *)
(* favicon URLs, and the default renderer is never restored.               *)
(***************************************************************************)
PageOf(self) ==
    [swagger_css_url |-> self.swagger_css_url[1],
     swagger_js_url |-> self.swagger_js_url[1],
     swagger_favicon_url |-> self.swagger_favicon_url[1]]

C8_Original ==
    [][patch # DefaultRenderer =>
        /\ patch' # DefaultRenderer
        /\ docs_page(confs', patch') = PageOf(confs[patch])]_vars

(***************************************************************************)
(* C8 amended: a successful substitution is process-wide and is never      *)
(* undone: from then on every documentation page in the process, for any   *)
(* application instance, references the CSS, JS and favicon URLs of the    *)
(* object that performed the most recent successful substitution (a later  *)
(* substitution by another object replaces an earlier one), and no         *)
(* operation restores the default renderer.                                *)
(***************************************************************************)
\* the step is a call in which configure_swagger_ui went through
SubstitutionStep ==
    /\ last'.method \in {"setup", "configure_swagger_ui"}
    /\ last'.exc = NoExc
    /\ "configure_swagger_ui" \in Range(last'.calls)
    /\ AllFourGiven(confs[last'.obj])
    /\ BothFilesPresent(asset_files)

C8_LatestSubstitutionRules ==
    [][/\ patch # DefaultRenderer => patch' # DefaultRenderer
       /\ IF SubstitutionStep
          THEN /\ patch' = last'.obj
               /\ docs_page(confs', patch') = PageOf(confs'[last'.obj])
          ELSE /\ patch' = patch
               /\ docs_page(confs', patch') = docs_page(confs, patch)]_vars

C8_Witness ==
    /\ DOMAIN confs = {"A", "B"}
    /\ patch = "B"
    /\ confs["A"].app # None
    /\ CountNamed(confs["A"].app[1], "assets") = 1
    /\ docs_page(confs, patch) = PageOf(confs["B"])
    /\ PageOf(confs["A"]) # PageOf(confs["B"])

=============================================================================
